---- MODULE Spec2Model ----
(***************************************************************************)
(* A model of the CBRE chatbot: the ingestion script (src/ingest_data.py)  *)
(* that splits the sample documents into chunks and appends them to the    *)
(* persistent collection "cbre_docs" under ./chroma_db, and the chat       *)
(* service (src/main.py) that opens the same collection and answers        *)
(* POST /chat from the three nearest chunks with a templated string.       *)
(*                                                                         *)
(* Texts are TLA+ strings; Len, \o and SubSeq act on them character by     *)
(* character, so Python's s[:n] is Prefix(s, n) and "sep".join is Join.    *)
(***************************************************************************)
EXTENDS Integers, Sequences, FiniteSets, TLC

VARIABLES
  disk,         \* the collection persisted under ./chroma_db, in insertion order
  nextId,       \* source of fresh entry ids (uuid4 in the library)
  ipc,          \* the ingestion process's position in the script
  imem,         \* the ingestion process's in-memory view of the collection
  splitter,     \* text_splitter's configuration
  documents,    \* the Documents the ingestion process built
  chunks,       \* the chunks the splitter produced
  report,       \* what the ingestion process printed at the end
  runs,         \* completed ingestion runs
  vectorstore,  \* main.py's module-level handle: "none" or "ready"
  coll,         \* the collection main.py's handle reads
  resp          \* the outcome of the last POST /chat

vars == <<disk, nextId, ipc, imem, splitter, documents, chunks, report, runs,
          vectorstore, coll, resp>>

-----------------------------------------------------------------------------
(* Bounds of the model *)

MaxRuns == 2      \* ingestion runs against the same storage path
MaxPre == 1       \* entries already in ./chroma_db when the model starts
MaxLen == 5       \* length of a document content given to the splitter alone
MaxSize == 3      \* chunk sizes given to the splitter alone

(* Program constants *)

K == 3                 \* similarity_search(..., k=3)
ContextLimit == 500    \* context[:500]
SourceLimit == 150     \* doc.page_content[:150]
chunk_size == 500
chunk_overlap == 50

Min(a, b) == IF a < b THEN a ELSE b
Max(a, b) == IF a > b THEN a ELSE b
SetMax(S) == CHOOSE x \in S : \A y \in S : y <= x

-----------------------------------------------------------------------------
(* Python string operations *)

\* s[:n]
Prefix(s, n) == SubSeq(s, 1, Min(n, Len(s)))

\* sep.join(parts)
RECURSIVE Join(_, _)
Join(sep, parts) ==
  IF Len(parts) = 0 THEN ""
  ELSE IF Len(parts) = 1 THEN parts[1]
  ELSE parts[1] \o sep \o Join(sep, Tail(parts))

-----------------------------------------------------------------------------
(* The sample documents of the ingestion script *)

\* src/ingest_data.py:34-43, "Office Space Solutions" (751 characters)
Content1 ==
  "CBRE Office Space Solutions\n        \nCBRE offers comprehensive office space solutions in major metropolitan areas across the United States. Our portfolio includes Class A office buildings featuring modern amenities such as high-speed internet, conference rooms, fitness centers, and 24/7 security. \n\nWe provide flexible lease terms ranging from short-term coworking spaces to long-term corporate headquarters leases. Our office properties are strategically located in prime business districts with excellent access to public transportation, dining, and retail amenities.\n\nPopular locations include New York City (Manhattan), Los Angeles (Downtown and West LA), Chicago (Loop and River North), San Francisco (Financial District), and Austin (Downtown)."

\* src/ingest_data.py:44-58, "Industrial Properties" (666 characters)
Content2 ==
  "Industrial and Warehouse Properties\n        \nCBRE's industrial and logistics division specializes in warehouse and distribution center properties ranging from 50,000 to over 500,000 square feet. Our facilities feature:\n\n- Clear heights of 28-36 feet\n- Multiple dock-high loading doors\n- ESFR sprinkler systems\n- LED lighting throughout\n- Proximity to major highways and interstates\n- Rail access available at select locations\n\nThese properties are ideal for e-commerce fulfillment, manufacturing, cold storage, and third-party logistics operations. Major industrial markets include the Inland Empire (California), Dallas-Fort Worth, Atlanta, Chicago, and New Jersey."

\* src/ingest_data.py:59-72, "2024 Market Trends" (854 characters)
Content3 ==
  "2024 Commercial Real Estate Market Trends\n        \nThe commercial real estate market in 2024 shows strong performance in several key areas:\n\nOffice Market: Hybrid work models continue to drive demand for flexible, amenity-rich office spaces. Flight to quality remains a dominant trend, with tenants seeking Class A properties with modern technology infrastructure.\n\nIndustrial Sector: E-commerce growth fuels continued demand for last-mile distribution facilities. Industrial vacancy rates remain at historic lows in top-tier markets.\n\nInvestment Activity: Cap rates have stabilized after the 2023 adjustment period. Institutional investors are actively seeking core assets in primary markets.\n\nTechnology Impact: PropTech adoption accelerates, with smart building systems, AI-powered property management, and virtual touring becoming standard offerings."

\* src/ingest_data.py:73-87, "Retail Properties" (655 characters)
Content4 ==
  "CBRE Retail Properties\n        \nOur retail division manages shopping centers, lifestyle centers, and mixed-use developments across the country. Properties range from neighborhood strip centers to regional malls and premium outlet centers.\n\nKey Features:\n- High-traffic locations with excellent visibility\n- Co-tenancy with national and regional retailers\n- Ample parking with modern amenities\n- Common area maintenance programs\n- Marketing and promotional support\n\nRetail trends show strong performance for experiential retail, dining, and entertainment concepts. Grocery-anchored centers and medical office adjacencies continue to attract stable traffic."

\* src/ingest_data.py:88-107, "Leasing Services" (643 characters)
Content5 ==
  "CBRE Leasing Services\n        \nCBRE provides comprehensive tenant representation and landlord representation services:\n\nTenant Representation:\n- Market analysis and site selection\n- Lease negotiation and documentation\n- Space planning and design coordination\n- Move management services\n\nLandlord Representation:\n- Property marketing and positioning\n- Tenant prospecting and outreach\n- Lease structuring and negotiation\n- Portfolio management\n\nOur team of experienced brokers provides market insights, financial analysis, and strategic advice to optimize real estate decisions. We serve clients across all property types and markets nationwide."

\* src/ingest_data.py:108-123, "Investment Analysis" (894 characters)
Content6 ==
  "Commercial Real Estate Investment Analysis\n        \nWhen evaluating commercial real estate investments, CBRE considers several key metrics:\n\nCap Rate: Net operating income divided by property value. Current market cap rates range from 4-5% for Class A office to 5-7% for industrial properties.\n\nCash-on-Cash Return: Annual pre-tax cash flow divided by total cash invested. Target returns typically range from 7-12% depending on asset class and risk profile.\n\nInternal Rate of Return (IRR): Time-weighted return considering all cash flows. Institutional investors typically target 12-18% IRR for value-add strategies.\n\nOccupancy and Tenant Quality: Stable, creditworthy tenants with long-term leases reduce risk and enhance property value.\n\nLocation Factors: Proximity to labor pools, transportation infrastructure, and amenities directly impacts property performance and appreciation potential."

sample_documents ==
  <<[content |-> Content1, metadata |-> [title |-> "Office Space Solutions", category |-> "Office"]],
    [content |-> Content2, metadata |-> [title |-> "Industrial Properties", category |-> "Industrial"]],
    [content |-> Content3, metadata |-> [title |-> "2024 Market Trends", category |-> "Market Analysis"]],
    [content |-> Content4, metadata |-> [title |-> "Retail Properties", category |-> "Retail"]],
    [content |-> Content5, metadata |-> [title |-> "Leasing Services", category |-> "Services"]],
    [content |-> Content6, metadata |-> [title |-> "Investment Analysis", category |-> "Investment"]]>>

-----------------------------------------------------------------------------
(* The chunker: RecursiveCharacterTextSplitter(chunk_size, chunk_overlap,    *)
(* separators).  Its code is the library's; it is modelled from the         *)
(* specification's contract (section 4.1): windows of at most chunk_size    *)
(* characters, cut at the last occurrence in the window of the              *)
(* highest-priority separator present, the next window starting             *)
(* chunk_overlap characters before the cut.                                 *)

\* (a variant: the list without its last, character-level separator)
separators_no_char == <<"\n\n", "\n", ". ", " ">>

separators == <<"\n\n", "\n", ". ", " ", "">>

\* The end positions in lo..hi of the occurrences of sep that start at p or later.
SepEnds(text, sep, p, lo, hi) ==
  {e \in lo..hi : /\ e - Len(sep) + 1 >= p
                  /\ SubSeq(text, e - Len(sep) + 1, e) = sep}

\* Where the unit that starts the window ends when no separator of the list
\* occurs in the window: at the first separator after it, or at the end of the text.
UnitEnd(text, p, hi) ==
  LET later == {e \in (hi + 1)..Len(text) :
                  \E s \in 1..Len(separators) :
                    SepEnds(text, separators[s], p, e, e) # {}}
  IN  IF later # {} THEN CHOOSE e \in later : \A y \in later : e <= y ELSE Len(text)

\* The cut: the last end of the first separator of the list, from the s-th on,
\* that occurs in the window.  The empty separator occurs at every position.
RECURSIVE PickCut(_, _, _, _, _)
PickCut(text, p, lo, hi, s) ==
  IF s > Len(separators) THEN UnitEnd(text, p, hi)
  ELSE LET ends == SepEnds(text, separators[s], p, lo, hi)
       IN  IF ends # {} THEN SetMax(ends) ELSE PickCut(text, p, lo, hi, s + 1)

\* The chunks of text from position p on, the previous chunk having ended at prevEnd.
RECURSIVE SplitFrom(_, _, _, _, _)
SplitFrom(text, size, overlap, p, prevEnd) ==
  IF prevEnd >= Len(text) THEN <<>>
  ELSE IF Len(text) - p + 1 <= size THEN <<SubSeq(text, p, Len(text))>>
  ELSE LET e == PickCut(text, p, Max(prevEnd + 1, p), p + size - 1, 1)
       IN  <<SubSeq(text, p, e)>>
             \o SplitFrom(text, size, overlap, Max(e + 1 - overlap, p + 1), e)

split_text(text, cfg) == SplitFrom(text, cfg.chunk_size, cfg.chunk_overlap, 1, 0)

\* split_documents: every document's chunks, each with a copy of its metadata.
RECURSIVE split_documents(_, _)
split_documents(docs, cfg) ==
  IF Len(docs) = 0 THEN <<>>
  ELSE LET texts == split_text(docs[1].page_content, cfg)
       IN  [i \in 1..Len(texts) |->
              [page_content |-> texts[i], metadata |-> docs[1].metadata]]
             \o split_documents(Tail(docs), cfg)

-----------------------------------------------------------------------------
(* The embedding provider and the vector store.  Both are the libraries';   *)
(* they are modelled from the specification (sections 4.2 and 6): embed is  *)
(* a pure function from a text to a vector of fixed dimension, the store    *)
(* keeps (vector, text, metadata) entries in insertion order, and query     *)
(* returns the k entries of highest cosine similarity, ties by insertion.   *)

\* A stand-in for the embedding model: a pure function of the text.
Embed(text) == <<1 + (Len(text) % 4), 1 + ((Len(text) \div 4) % 3)>>

Dot(a, b) == a[1] * b[1] + a[2] * b[2]

\* cos(q, x) > cos(q, y), for vectors of positive components.
Closer(q, x, y) == Dot(q, x) * Dot(q, x) * Dot(y, y) > Dot(q, y) * Dot(q, y) * Dot(x, x)

\* The index, among i..Len(collection) and best, of the entry of highest score
\* that is not taken; among equal scores the earliest inserted (0: there is none).
RECURSIVE Best(_, _, _, _, _)
Best(collection, q, taken, i, best) ==
  IF i > Len(collection) THEN best
  ELSE IF i \in taken THEN Best(collection, q, taken, i + 1, best)
  ELSE IF best = 0 \/ Closer(q, collection[i].embedding, collection[best].embedding)
  THEN Best(collection, q, taken, i + 1, i)
  ELSE Best(collection, q, taken, i + 1, best)

\* The indices of the k nearest entries that are not taken, nearest first.
RECURSIVE NearestFrom(_, _, _, _)
NearestFrom(collection, q, k, taken) ==
  IF k = 0 \/ Cardinality(taken) >= Len(collection) THEN <<>>
  ELSE LET b == Best(collection, q, taken, 1, 0)
       IN  <<b>> \o NearestFrom(collection, q, k - 1, taken \cup {b})

Nearest(collection, q, k) == NearestFrom(collection, q, k, {})

\* query(text, k): the k nearest entries.
Query(collection, text, k) ==
  LET near == Nearest(collection, Embed(text), k)
  IN  [p \in 1..Len(near) |-> collection[near[p]]]

\* add(chunks): one new entry per chunk, each with a fresh id, after the others.
AddDocuments(collection, cks, firstId) ==
  collection \o [i \in 1..Len(cks) |->
                   [id |-> firstId + i - 1,
                    page_content |-> cks[i].page_content,
                    metadata |-> cks[i].metadata,
                    embedding |-> Embed(cks[i].page_content)]]

-----------------------------------------------------------------------------
(* src/main.py *)

NoDocsMarker == "No documents in database yet. Using general knowledge."
NoRelevant == "No relevant documents found."
ResponsePrefix == "Based on CBRE's information: "
ResponseSuffix == "\n\nIs there anything specific you'd like to know more about?"
Fallback ==
  "I don't have specific information about that in my database yet. Please make sure you've run 'python ingest_data.py' to load the CBRE documents first."

\* (a variant: the comparison with the marker left out)
generate_response_no_marker(query, context) ==
  IF context # ""
  THEN ResponsePrefix \o Prefix(context, ContextLimit) \o ResponseSuffix
  ELSE Fallback

generate_response(query, context) ==
  IF context # "" /\ context # NoDocsMarker
  THEN ResponsePrefix \o Prefix(context, ContextLimit) \o ResponseSuffix
  ELSE Fallback

\* (a variant: one result too many)
similarity_search_wide(collection, query, k) ==
  LET found == Query(collection, query, k + 1)
  IN  [p \in 1..Len(found) |->
         [page_content |-> found[p].page_content, metadata |-> found[p].metadata]]

\* vectorstore.similarity_search(query, k): the Documents of the k nearest entries.
similarity_search(collection, query, k) ==
  LET found == Query(collection, query, k)
  IN  [p \in 1..Len(found) |->
         [page_content |-> found[p].page_content, metadata |-> found[p].metadata]]

\* [doc.page_content for doc in results]
PageContents(results) == [p \in 1..Len(results) |-> results[p].page_content]

\* (a variant: the ellipsis only where the text was cut)
SourcesWhenTruncated(results) ==
  [p \in 1..Len(results) |->
     IF Len(results[p].page_content) > SourceLimit
     THEN Prefix(results[p].page_content, SourceLimit) \o "..."
     ELSE results[p].page_content]

\* [doc.page_content[:150] + "..." for doc in results]
Sources(results) ==
  [p \in 1..Len(results) |-> Prefix(results[p].page_content, SourceLimit) \o "..."]

\* (a variant: the conversation history put in front of the retrieved context)
RetrieveWithHistory(handle, collection, request, fault) ==
  IF handle = "ready" /\ fault = "count"
  THEN [raised |-> TRUE, searched |-> FALSE, results |-> <<>>,
        context |-> "", sources |-> <<>>]
  ELSE IF handle = "ready" /\ Len(collection) > 0
  THEN IF fault = "search"
       THEN [raised |-> FALSE, searched |-> TRUE, results |-> <<>>,
             context |-> NoRelevant, sources |-> <<>>]
       ELSE LET results == similarity_search(collection, request.query, K)
            IN  [raised |-> FALSE, searched |-> TRUE, results |-> results,
                 context |->
                   Join("\n\n",
                        [i \in 1..Len(request.conversation_history) |->
                           request.conversation_history[i].content]
                          \o PageContents(results)),
                 sources |-> Sources(results)]
  ELSE [raised |-> FALSE, searched |-> FALSE, results |-> <<>>,
        context |-> NoDocsMarker, sources |-> <<>>]

\* Lines 106-123 of the handler: what it holds before it generates the response.
\* fault says which read of the store raises, if any ("none", "count", "search");
\* raised: the exception left the inner try and reached the outer except.
Retrieve(handle, collection, request, fault) ==
  IF handle = "ready" /\ fault = "count"
  THEN [raised |-> TRUE, searched |-> FALSE, results |-> <<>>,
        context |-> "", sources |-> <<>>]
  ELSE IF handle = "ready" /\ Len(collection) > 0
  THEN IF fault = "search"
       THEN [raised |-> FALSE, searched |-> TRUE, results |-> <<>>,
             context |-> NoRelevant, sources |-> <<>>]
       ELSE LET results == similarity_search(collection, request.query, K)
            IN  [raised |-> FALSE, searched |-> TRUE, results |-> results,
                 context |-> Join("\n\n", PageContents(results)),
                 sources |-> Sources(results)]
  ELSE [raised |-> FALSE, searched |-> FALSE, results |-> <<>>,
        context |-> NoDocsMarker, sources |-> <<>>]

\* Lines 125-138: the ChatResponse, or the HTTPException of the outer except.
Respond(request, r, now) ==
  IF r.raised
  THEN [status |-> 500, response |-> "", sources |-> <<>>, timestamp |-> "",
        searched |-> r.searched, results |-> r.results]
  ELSE [status |-> 200,
        response |-> generate_response(request.query, r.context),
        sources |-> r.sources, timestamp |-> now,
        searched |-> r.searched, results |-> r.results]

\* The handler of POST /chat on a validated request.
chat(request, handle, collection, fault, now) ==
  Respond(request, Retrieve(handle, collection, request, fault), now)

\* ChatRequest: query is a required string, conversation_history is optional.
ValidRequest(body) == "query" \in DOMAIN body

\* The framework's answer to a body that is no ChatRequest: the handler does not run.
Rejected ==
  [status |-> 422, response |-> "", sources |-> <<>>, timestamp |-> "",
   searched |-> FALSE, results |-> <<>>]

Histories == {<<>>, <<[role |-> "user", content |-> "hello"]>>}
Queries == {"", "office"}
Bodies ==
  [query : Queries, conversation_history : Histories]
    \cup [conversation_history : Histories]
Faults == {"none", "count", "search"}
\* datetime.utcnow().isoformat(): two readings of the clock.
Times == {"2024-01-01T00:00:00", "2024-01-01T00:00:01"}

-----------------------------------------------------------------------------
(* The state machine *)

PreTexts == {NoDocsMarker, "CBRE leases Class A office space."}

PreEntry(i, text) ==
  [id |-> i, page_content |-> text, metadata |-> [title |-> "", category |-> ""],
   embedding |-> Embed(text)]

\* The collections ./chroma_db may hold before the first run of the model.
PreStores ==
  UNION {{[i \in 1..n |-> PreEntry(i, f[i])] : f \in [1..n -> PreTexts]} : n \in 0..MaxPre}

NoResponse ==
  [served |-> FALSE, request |-> [conversation_history |-> <<>>], fault |-> "none",
   out |-> Rejected]

ProgramSplitter == [chunk_size |-> chunk_size, chunk_overlap |-> chunk_overlap]

Init ==
  /\ disk \in PreStores
  /\ nextId = Len(disk) + 1
  /\ ipc = "start"
  /\ imem = <<>>
  /\ splitter = ProgramSplitter
  /\ documents = <<>>
  /\ chunks = <<>>
  /\ report = [added |-> 0, total |-> 0]
  /\ runs = 0
  /\ vectorstore = "down"
  /\ coll = <<>>
  /\ resp = NoResponse

ServiceVars == <<vectorstore, coll, resp>>
IngestVars == <<ipc, imem, splitter, documents, chunks, report, runs>>

\* What opening the collection under ./chroma_db gives the process.
Opened(stored) == stored

\* ingest_data.py, lines 26-30: a new ingestion process opens the collection.
IngestOpen ==
  /\ ipc \in {"start", "done"}
  /\ runs < MaxRuns
  /\ ipc' = "opened"
  /\ imem' = Opened(disk)
  /\ UNCHANGED <<disk, nextId, splitter, documents, chunks, report, runs, ServiceVars>>

\* lines 128-147: build the Documents and split them.
IngestSplit ==
  /\ ipc = "opened"
  /\ documents' = [i \in 1..Len(sample_documents) |->
                     [page_content |-> sample_documents[i].content,
                      metadata |-> sample_documents[i].metadata]]
  /\ splitter' = ProgramSplitter
  /\ chunks' = split_documents(documents', splitter')
  /\ ipc' = "split"
  /\ UNCHANGED <<disk, nextId, imem, report, runs, ServiceVars>>

\* (a variant: chunks are added only to a collection that is still empty)
IngestAddIfEmpty ==
  /\ ipc = "split"
  /\ imem' = IF Len(imem) = 0 THEN AddDocuments(imem, chunks, nextId) ELSE imem
  /\ nextId' = nextId + Len(chunks)
  /\ disk' \in {disk, imem'}
  /\ ipc' = "added"
  /\ UNCHANGED <<splitter, documents, chunks, report, runs, ServiceVars>>

\* line 151: add_documents(chunks).  Whether the library writes the new entries
\* through to disk at once or holds them until persist() depends on its version.
IngestAdd ==
  /\ ipc = "split"
  /\ imem' = AddDocuments(imem, chunks, nextId)
  /\ nextId' = nextId + Len(chunks)
  /\ disk' \in {disk, imem'}
  /\ ipc' = "added"
  /\ UNCHANGED <<splitter, documents, chunks, report, runs, ServiceVars>>

\* (a variant: persist() is not called, the disk stays as it was)
NotPersisted(memory, stored) == stored

\* What is on disk after persist(), from the process's collection and the disk before.
Persisted(memory, stored) == memory

\* line 154: persist().
IngestPersist ==
  /\ ipc = "added"
  /\ disk' = Persisted(imem, disk)
  /\ ipc' = "persisted"
  /\ UNCHANGED <<nextId, imem, splitter, documents, chunks, report, runs, ServiceVars>>

\* lines 156-158: report the chunk count and the collection's count; the process
\* ends and its memory with it.
IngestReport ==
  /\ ipc = "persisted"
  /\ report' = [added |-> Len(chunks), total |-> Len(imem)]
  /\ runs' = runs + 1
  /\ ipc' = "done"
  /\ imem' = <<>>
  /\ documents' = <<>>
  /\ chunks' = <<>>
  /\ UNCHANGED <<disk, nextId, splitter, ServiceVars>>

\* main.py, lines 53-64: the service starts (or restarts); the handle stays None
\* when the database setup fails.
StartService ==
  /\ \E h \in {"none", "ready"} :
       /\ vectorstore' = h
       /\ coll' = IF h = "ready" THEN Opened(disk) ELSE <<>>
  /\ resp' = NoResponse
  /\ UNCHANGED <<disk, nextId, IngestVars>>

\* main.py, lines 103-138: POST /chat with a body; the framework validates it
\* against ChatRequest and runs the handler.
PostChat ==
  /\ vectorstore # "down"
  /\ \E body \in Bodies, fault \in Faults :
       IF ValidRequest(body)
       THEN LET r == Retrieve(vectorstore, coll, body, fault)
            IN  \E now \in Times :
                  resp' = [served |-> TRUE, request |-> body, fault |-> fault,
                           out |-> Respond(body, r, now)]
       ELSE resp' = [served |-> TRUE, request |-> body, fault |-> fault,
                     out |-> Rejected]
  /\ UNCHANGED <<disk, nextId, IngestVars, vectorstore, coll>>

Next ==
  \/ IngestOpen
  \/ IngestSplit
  \/ IngestAdd
  \/ IngestPersist
  \/ IngestReport
  \/ StartService
  \/ PostChat

Spec == Init /\ [][Next]_vars

-----------------------------------------------------------------------------
(* The splitter alone, on every short content and small configuration *)

Alphabet == {"a", " ", ".", "\n"}

RECURSIVE Str(_)
Str(cs) == IF Len(cs) = 0 THEN "" ELSE cs[1] \o Str(Tail(cs))

Contents == {Str(cs) : cs \in UNION {[1..n -> Alphabet] : n \in 0..MaxLen}}

\* chunk_size > 0 and 0 <= chunk_overlap < chunk_size
Configs ==
  {c \in [chunk_size : 1..MaxSize, chunk_overlap : 0..(MaxSize - 1)] :
     c.chunk_overlap < c.chunk_size}

ChunkInit ==
  /\ splitter \in Configs
  /\ documents \in {<<[page_content |-> c, metadata |-> [title |-> "t", category |-> "c"]]>> :
                      c \in Contents}
  /\ chunks = <<>>
  /\ ipc = "opened"
  /\ disk = <<>>
  /\ nextId = 1
  /\ imem = <<>>
  /\ report = [added |-> 0, total |-> 0]
  /\ runs = 0
  /\ vectorstore = "down"
  /\ coll = <<>>
  /\ resp = NoResponse

\* text_splitter.split_documents(documents), on the documents and configuration given.
SplitAlone ==
  /\ ipc = "opened"
  /\ chunks' = split_documents(documents, splitter)
  /\ ipc' = "split"
  /\ UNCHANGED <<disk, nextId, imem, splitter, documents, report, runs, ServiceVars>>

SpecChunk == ChunkInit /\ [][SplitAlone]_vars

-----------------------------------------------------------------------------
(* Properties *)

\* The last POST /chat carried a valid ChatRequest, so the handler ran.
Handled == resp.served /\ ValidRequest(resp.request)

\* C1: when the handle is None, or the count read gives 0, the chat operation
\* returns successfully with the fixed fallback string and no sources.
C1_FallbackWhenEmptyOrUnavailable ==
  (/\ Handled
   /\ \/ vectorstore = "none"
      \/ vectorstore = "ready" /\ Len(coll) = 0 /\ resp.fault # "count")
  => /\ resp.out.status = 200
     /\ resp.out.response = Fallback
     /\ resp.out.sources = <<>>

\* A query answered by an opened, empty store.
C1_Witness ==
  /\ Handled
  /\ vectorstore = "ready"
  /\ Len(coll) = 0
  /\ resp.fault = "none"
  /\ resp.request.query = "office"
  /\ resp.out.response = Fallback

\* C2: on a store with at least one entry whose search succeeds, the response is
\* the fixed prefix, the first 500 characters of the retrieved texts joined by a
\* blank line, and the fixed suffix, whatever the retrieved texts are.
C2_TemplateWhateverTheTexts ==
  (/\ Handled
   /\ vectorstore = "ready"
   /\ Len(coll) > 0
   /\ resp.fault = "none")
  => /\ Len(resp.out.results) = Min(3, Len(coll))
     /\ resp.out.response =
          "Based on CBRE's information: "
            \o Prefix(Join("\n\n", PageContents(resp.out.results)), 500)
            \o ResponseSuffix

\* C3: sources has one element per retrieved chunk, in the returned order, at most
\* three; each is the first 150 characters of the chunk's text and then "...".
C3_SourcesTruncated ==
  resp.served =>
    /\ Len(resp.out.sources) = Len(resp.out.results)
    /\ Len(resp.out.sources) <= 3
    /\ \A p \in 1..Len(resp.out.sources) :
         LET t == resp.out.results[p].page_content
             s == resp.out.sources[p]
             kept == Len(s) - 3
         IN  /\ kept = Min(Len(t), 150)
             /\ SubSeq(s, 1, kept) = SubSeq(t, 1, kept)
             /\ SubSeq(s, kept + 1, Len(s)) = "..."

\* Three sources, one of a text longer than 150 characters and one of a shorter one.
C3_Witness ==
  /\ Handled
  /\ Len(resp.out.sources) = 3
  /\ \E p \in 1..3 : Len(resp.out.results[p].page_content) > 150
  /\ \E p \in 1..3 : Len(resp.out.results[p].page_content) < 150

\* C4: when the store is present and a read of it raises while a request is
\* handled (the count or the search), the request still succeeds, with the
\* fallback string and no sources.
C4_StoreFailureGivesFallback ==
  (/\ Handled
   /\ vectorstore = "ready"
   /\ \/ resp.fault = "count"
      \/ resp.fault = "search" /\ Len(coll) > 0)
  => /\ resp.out.status = 200
     /\ resp.out.response = Fallback
     /\ resp.out.sources = <<>>

\* C5: a request whose query is missing or empty is rejected: no search of the
\* store, no response text (stated for the requests during which no read of the
\* store raises).
C5_EmptyQueryRejected ==
  (/\ resp.served
   /\ resp.fault = "none"
   /\ \/ ~ValidRequest(resp.request)
      \/ resp.request.query = "")
  => /\ resp.out.status = 422
     /\ ~resp.out.searched
     /\ resp.out.response = ""

\* The entries that were in ./chroma_db before the first run: those without a title.
PreCount == Cardinality({i \in 1..Len(disk) : disk[i].metadata.title = ""})

\* A step of StartService that leaves the handle ready.
ServiceOpens ==
  /\ <<vectorstore, coll, resp>>' # <<vectorstore, coll, resp>>
  /\ resp' = NoResponse
  /\ vectorstore' = "ready"

\* A step of IngestOpen.
IngestOpens == ipc # "opened" /\ ipc' = "opened"

\* C6: once an ingestion run has called persist(), the disk holds the collection
\* the run built, and the count it reports is the persisted count; a process
\* that opens the storage path afterwards (the service or another ingestion
\* run) sees exactly the persisted entries, and opening changes none of them.
C6_RestartPersistence ==
  /\ [](ipc = "persisted" => disk = imem)
  /\ [](ipc = "done" => report.total = Len(disk))
  /\ [][ServiceOpens => (disk' = disk /\ coll' = disk)]_vars
  /\ [][IngestOpens => (disk' = disk /\ imem' = disk)]_vars

\* The service, opened after a finished run, holds the entries the run persisted.
C6_Witness ==
  /\ ipc = "done"
  /\ runs = 1
  /\ vectorstore = "ready"
  /\ coll = disk
  /\ Len(coll) = report.total
  /\ report.added > 0

\* Entry i of the collection scores at least as high as entry j for q, and
\* was inserted earlier if they score the same.
RankedBefore(collection, q, i, j) ==
  /\ ~Closer(q, collection[j].embedding, collection[i].embedding)
  /\ ~Closer(q, collection[i].embedding, collection[j].embedding) => i < j

\* C7: query(text, k) returns min(k, count()) entries, never more than k, in
\* non-increasing score order, equal scores in insertion order, and no entry
\* left out outranks one returned; the chat operation builds its context and
\* sources from the 3 highest-scoring entries, at most 3.
C7_TopKOrdered ==
  /\ \A text \in Queries, k \in 1..(K + 1) :
       LET q == Embed(text)
           r == Nearest(coll, q, k)
           hit == {r[p] : p \in 1..Len(r)}
       IN  /\ Len(r) = Min(k, Len(coll))
           /\ hit \subseteq 1..Len(coll)
           /\ \A p1, p2 \in 1..Len(r) : p1 < p2 => RankedBefore(coll, q, r[p1], r[p2])
           /\ \A i \in (1..Len(coll)) \ hit : \A p \in 1..Len(r) :
                RankedBefore(coll, q, r[p], i)
  /\ (Handled /\ resp.out.searched /\ resp.fault = "none") =>
       LET r == Nearest(coll, Embed(resp.request.query), 3)
       IN  /\ Len(resp.out.results) = Min(3, Len(coll))
           /\ \A p \in 1..Len(resp.out.results) :
                resp.out.results[p].page_content = coll[r[p]].page_content

\* Three chunks retrieved from a larger store in which the two nearest score the same.
C7_Witness ==
  /\ Handled
  /\ Len(coll) > 3
  /\ Len(resp.out.results) = 3
  /\ LET q == Embed(resp.request.query)
         r == Nearest(coll, q, 3)
     IN  /\ ~Closer(q, coll[r[1]].embedding, coll[r[2]].embedding)
         /\ Closer(q, coll[r[1]].embedding, coll[r[3]].embedding)

\* C8: every chunk is at most chunk_size characters long (with the script's
\* separator list, whose last separator splits between any two characters);
\* empty content gives no chunk, other content shorter than chunk_size gives one.
C8_ChunkBounds ==
  ipc = "split" =>
    LET content == documents[1].page_content
    IN  /\ \A i \in 1..Len(chunks) : Len(chunks[i].page_content) <= splitter.chunk_size
        /\ content = "" => Len(chunks) = 0
        /\ (content # "" /\ Len(content) < splitter.chunk_size) =>
             (Len(chunks) = 1 /\ chunks[1].page_content = content)

\* A content longer than chunk_size, split in three chunks or more.
C8_Witness ==
  /\ ipc = "split"
  /\ Len(documents[1].page_content) > splitter.chunk_size
  /\ splitter.chunk_size > 1
  /\ Len(chunks) >= 3

\* C9: ingestion only appends: the collection on disk grows by one entry with a
\* fresh id per chunk of the run, in order, and no entry is removed or
\* overwritten; every run adds the same number N of chunks, so r runs against
\* the same storage path leave r * N entries after those it held before.
C9_AppendOnly ==
  /\ [][Len(disk') >= Len(disk) /\ SubSeq(disk', 1, Len(disk)) = disk]_vars
  /\ [](\A i, j \in 1..Len(disk) : i # j => disk[i].id # disk[j].id)
  /\ [](ipc = "persisted" =>
          /\ Len(disk) = PreCount + (runs + 1) * Len(chunks)
          /\ \A r \in 0..runs, i \in 1..Len(chunks) :
               disk[PreCount + r * Len(chunks) + i].page_content = chunks[i].page_content)
  /\ [](ipc = "done" => Len(disk) = PreCount + runs * report.added)
  /\ [][report.added # 0 => report'.added = report.added]_vars

\* Two finished runs against a storage path.
C9_Witness ==
  /\ ipc = "done"
  /\ runs = 2
  /\ report.added > 0
  /\ Len(disk) = PreCount + 2 * report.added

\* C10: a chat request changes neither the store nor the service's collection,
\* and two requests with the same query handled one after the other against
\* the same store (the same reads failing) get the same status, response text
\* and sources, whatever their conversation histories.
C10_HistoryIgnoredPureRead ==
  [][(resp' # resp /\ resp'.served) =>
       /\ disk' = disk
       /\ coll' = coll
       /\ vectorstore' = vectorstore
       /\ (/\ resp.served
           /\ ValidRequest(resp.request)
           /\ ValidRequest(resp'.request)
           /\ resp'.request.query = resp.request.query
           /\ resp'.fault = resp.fault)
          => /\ resp'.out.status = resp.out.status
             /\ resp'.out.response = resp.out.response
             /\ resp'.out.sources = resp.out.sources]_vars

\* A request with a conversation history, answered from retrieved chunks.
C10_Witness ==
  /\ Handled
  /\ Len(resp.request.conversation_history) > 0
  /\ resp.out.status = 200
  /\ Len(resp.out.results) > 0

====
